---- MODULE Spec2Model ----
(***************************************************************************)
(* RingBufferLogger (src/index.js): a fixed-capacity circular event log    *)
(* that writes two artifacts around an 'error' event, the pre-error and    *)
(* the post-error context.                                                 *)
(*                                                                         *)
(* One action, Log, models a whole log() call: sanitize, write, possible   *)
(* pre-error flush, cursor advance, possible post-error flush.             *)
(*                                                                         *)
(* RingBufferLoggerOptimized (src/index-optimized.js) and                  *)
(* RingBufferLoggerUltra (src/index-bit-optimized.js) are modelled as two  *)
(* records, optimized and ultra; LogAll makes the same call on the three.  *)
(***************************************************************************)
EXTENDS Integers, Sequences, FiniteSets, TLC

(* ------------------------------ bounds -------------------------------- *)

\* largest capacity a logger is constructed with
MaxCapacity == 3

\* largest number of log() calls made on one logger
MaxCalls == 6

\* largest number of flushes whose file I/O fails
MaxIOFailures == 1

\* largest capacity asked of the three implementations
MaxRequested == 5

\* largest number of log() calls that try every payload
MaxPayloadCalls == 2

\* number of timers set by the callers
NumTimers == 4

\* largest number of getCurrentBuffer() and getStats() calls made on one
\* logger
MaxReads == 2

(* --------------------------- JavaScript values ------------------------ *)

Min(a, b) == IF a <= b THEN a ELSE b

\* the number NaN, the result of x % 0 (encoded outside the slot indices)
NaN == -1

\* the value null held by errorLoggedAt while Idle (encoded outside the indices)
Null == -2

\* payload values passed to log(), tagged by typeof: undefined (also an
\* omitted argument), null, numbers, strings, functions and symbols
Undefined == [t |-> "undefined"]

JsNull == [t |-> "null"]

Num(n) == [t |-> "number", v |-> n]

JsFunction == [t |-> "function"]

JsSymbol == [t |-> "symbol"]

\* a string: the first `units` UTF-16 units of body repeated without end,
\* followed by tail; Str(n) is 'a'.repeat(n)
Text(body, n) == [t |-> "string", body |-> body, units |-> n, tail |-> ""]

Str(n) == Text("a", n)

\* s.length
Length(s) == s.units + (IF s.tail = "..." THEN 3 ELSE 0)

\* an object literal {k: v, ...} with no other reference to it
Obj(fields) == [t |-> "object", kind |-> "object", fields |-> fields]

\* the property names of the elements of an array
ArrayKeys == <<"0", "1", "2">>

\* an array literal [v, ...] with no other reference to it
Arr(items) ==
  [t |-> "object", kind |-> "array",
   fields |-> [k \in {ArrayKeys[i] : i \in DOMAIN items} |->
                 items[CHOOSE i \in DOMAIN items : ArrayKeys[i] = k]]]

\* an object that is not a plain one (its constructor is not Object), with
\* no other reference to it
Instance(fields) == [t |-> "object", kind |-> "instance", fields |-> fields]

\* a reference to the caller's object Heap[id]; two references with the same
\* id are the same object
Ref(id) == [t |-> "ref", id |-> id]

\* the caller's objects that are referenced more than once:
\*   1: circular = {a: 1}; circular.self = circular
\*   2: obj1 = {name: 'obj1', ref: obj2, self: obj1}
\*   3: obj2 = {name: 'obj2', ref: obj1}
\*   4: leaf = {v: 1}, shared but on no cycle
Heap ==
  <<Obj([a |-> Num(1), self |-> Ref(1)]),
    Obj([name |-> Str(4), ref |-> Ref(3), self |-> Ref(2)]),
    Obj([name |-> Str(4), ref |-> Ref(2)]),
    Obj([v |-> Num(1)])>>

NoFields == [k \in {} |-> Undefined]

PlainObject(n) == Obj([id |-> Num(n)])

EmptyObject == Obj(NoFields)

\* payloads given to log() where the payload plays no part
Payloads == {PlainObject(1)}

\* payloads of every shape: absent and null, strings at the limit, long
\* strings at several depths, values without a JSON text, cyclic and shared
\* objects, an object that is not a plain one
AllPayloads ==
  {Undefined, JsNull, Str(1001), JsFunction,
   Obj([exactly |-> Str(1000), tooLong |-> Str(1001)]),
   Obj([nested |-> Obj([level |-> Str(1500)])]),
   Arr(<<Str(1001), JsFunction, Num(NaN)>>),
   Obj([fn |-> JsFunction, sym |-> JsSymbol, other |-> Undefined,
        value |-> JsNull]),
   Ref(1),
   Obj([circular |-> Ref(2)]),
   Obj([x |-> Ref(4), y |-> Ref(4)]),
   Instance([cause |-> Ref(1)])}

\* event names given to log(): the error marker, an ordinary name, and a
\* name that differs from the marker in case only
Events == {"error", "info", "ERROR"}

\* a + 1 in JavaScript numbers: NaN + 1 is NaN
JsInc(a) == IF a = NaN THEN NaN ELSE a + 1

\* a % c in JavaScript numbers: NaN % c and a % 0 are NaN
JsMod(a, c) == IF a = NaN \/ c = 0 THEN NaN ELSE a % c

\* a comparison under which NaN equals itself (Object.is)
StrictEq_SameValue(a, b) == a = b

\* a === b on numbers and null: NaN is not equal to anything, itself included
StrictEq(a, b) == a # NaN /\ b # NaN /\ a = b

(* ------------------------------ state --------------------------------- *)

VARIABLES
  capacity,       \* this.capacity
  buffer,         \* this.buffer: slot key -> <<>> (empty) or <<entry>>
  index,          \* this.index
  flushId,        \* this.flushId
  errorSeen,      \* this.errorSeen
  errorLoggedAt,  \* this.errorLoggedAt
  flushing,       \* this.flushing
  logDirOk,       \* whether the directory this.logDir exists
  flushes,        \* the flushes that ran, in order, each with its artifact
  dropped,        \* the flush requests dropped by the single-flight guard
  logged,         \* the entries created by log(), in call order
  optimized,      \* a RingBufferLoggerOptimized built with the same arguments
  ultra,          \* a RingBufferLoggerUltra built with the same arguments
  given,          \* the payload arguments of the log() calls, in call order
  held            \* what a caller holds of its last getCurrentBuffer() and
                  \* getStats() calls

vars == <<capacity, buffer, index, flushId, errorSeen, errorLoggedAt,
          flushing, logDirOk, flushes, dropped, logged, optimized, ultra,
          given, held>>

(* ---------------------------- sanitizer ------------------------------- *)

\* the longest string the sanitizer keeps whole
MaxStringLength == 1000

\* value.slice(0, 1000) + '...'
Truncate(s) ==
  [s EXCEPT !.units = Min(@, MaxStringLength), !.tail = "..."]

\* the replacer that truncates from 1000 units on
Replacer_CutAtLimit(v) ==
  IF v.t = "string" /\ Length(v) >= MaxStringLength THEN Truncate(v) ELSE v

\* the replacer given to JSON.stringify: a string longer than 1000 units is
\* cut, every other value is passed on
Replacer(v) ==
  IF v.t = "string" /\ Length(v) > MaxStringLength THEN Truncate(v) ELSE v

\* JSON.stringify throws (TypeError: cyclic object value)
Throws == [t |-> "throws"]

\* JSON.parse(JSON.stringify(v, replacer)) below the top level: the parsed
\* tree, Undefined where stringify yields undefined (the property is then
\* omitted, an array element becomes null), or Throws; stack holds the
\* objects being serialized; cut tells whether the replacer is given
RECURSIVE JsonValue(_, _, _)
RECURSIVE JsonComposite(_, _, _)
\* a stringify that writes a marker in place of an object met again
JsonValue_MarkCycle(v, stack, cut) ==
  LET w == IF cut THEN Replacer(v) ELSE v
  IN  CASE w.t \in {"undefined", "function", "symbol"} -> Undefined
        [] w.t = "number" -> IF w.v = NaN THEN JsNull ELSE w
        [] w.t = "ref" -> IF w.id \in stack
                          THEN Obj([error |-> Text("circular reference", 18)])
                          ELSE JsonComposite(Heap[w.id], stack \cup {w.id}, cut)
        [] w.t = "object" -> JsonComposite(w, stack, cut)
        [] OTHER -> w

\* a stringify that leaves out null like undefined
JsonValue_DropNull(v, stack, cut) ==
  LET w == IF cut THEN Replacer(v) ELSE v
  IN  CASE w.t \in {"undefined", "function", "symbol", "null"} -> Undefined
        [] w.t = "number" -> IF w.v = NaN THEN JsNull ELSE w
        [] w.t = "ref" -> IF w.id \in stack THEN Throws
                          ELSE JsonComposite(Heap[w.id], stack \cup {w.id}, cut)
        [] w.t = "object" -> JsonComposite(w, stack, cut)
        [] OTHER -> w

JsonValue(v, stack, cut) ==
  LET w == IF cut THEN Replacer(v) ELSE v
  IN  CASE w.t \in {"undefined", "function", "symbol"} -> Undefined
        [] w.t = "number" -> IF w.v = NaN THEN JsNull ELSE w
        [] w.t = "ref" -> IF w.id \in stack THEN Throws
                          ELSE JsonComposite(Heap[w.id], stack \cup {w.id}, cut)
        [] w.t = "object" -> JsonComposite(w, stack, cut)
        [] OTHER -> w

JsonComposite(o, stack, cut) ==
  LET children == [k \in DOMAIN o.fields |-> JsonValue(o.fields[k], stack, cut)]
      kept == {k \in DOMAIN o.fields : children[k] # Undefined}
  IN  IF \E k \in DOMAIN o.fields : children[k] = Throws THEN Throws
      ELSE IF o.kind = "array"
           THEN [t |-> "object", kind |-> "array",
                 fields |-> [k \in DOMAIN o.fields |->
                               IF children[k] = Undefined THEN JsNull
                               ELSE children[k]]]
           ELSE Obj([k \in kept |-> children[k]])

\* JSON.stringify(v) without a replacer, as the flush calls it
Stringify(v) == JsonValue(v, {}, FALSE)

\* { error: 'serialization failed' }
SerializationFailed == Obj([error |-> Text("serialization failed", 20)])

\* _sanitize without the test for null and undefined: null survives the
\* round trip, undefined fails it
Sanitize_NoNullTest(data) ==
  LET r == JsonValue(data, {}, TRUE)
  IN  IF r = Throws \/ r = Undefined THEN SerializationFailed ELSE r

\* _sanitize: null and undefined become {}; any other value goes through
\* JSON.stringify with the replacer and JSON.parse; when stringify throws,
\* or yields undefined so that parse throws, the sentinel is returned
Sanitize(data) ==
  IF data = JsNull \/ data = Undefined THEN EmptyObject
  ELSE LET r == JsonValue(data, {}, TRUE)
       IN  IF r = Throws \/ r = Undefined THEN SerializationFailed ELSE r

(* ---------------------------- ring buffer ------------------------------ *)

\* new Array(capacity): slots 0..capacity-1, all empty
NewBuffer(cap) == [k \in 0..(cap - 1) |-> <<>>]

\* this.buffer[this.index] = entry; a key outside the array (slot 0 or NaN
\* of a capacity-0 logger) is added to it
Write(buf, idx, entry) ==
  [k \in (DOMAIN buf) \cup {idx} |-> IF k = idx THEN <<entry>> ELSE buf[k]]

\* Advance without the modulo: the cursor runs off the end of the array
Advance_NoWrap(idx, cap) == JsInc(idx)

\* this.index = (this.index + 1) % this.capacity
Advance(idx, cap) == JsMod(JsInc(idx), cap)

\* _snapshot: the occupied slots among index, index+1, ... (capacity steps)
RECURSIVE SnapshotFrom(_, _, _, _)
SnapshotFrom(buf, idx, cap, i) ==
  IF i >= cap THEN <<>>
  ELSE buf[(idx + i) % cap] \o SnapshotFrom(buf, idx, cap, i + 1)

\* _snapshot with the loop started one slot late
Snapshot_OffByOne(buf, idx, cap) == SnapshotFrom(buf, idx, cap, 1)

\* _snapshot walking from slot 0 instead of from the cursor
Snapshot_FromZero(buf, idx, cap) == SnapshotFrom(buf, 0, cap, 0)

\* _snapshot looping over the array's length instead of the capacity
Snapshot_ByArrayLength(buf, idx, cap) ==
  SnapshotFrom(buf, idx, Cardinality((DOMAIN buf) \ {NaN}), 0)

Snapshot(buf, idx, cap) == SnapshotFrom(buf, idx, cap, 0)

\* _clear: buffer.fill(undefined) empties the array elements; a non-index
\* property (NaN) is not touched
Clear(buf) == [k \in DOMAIN buf |-> IF k = NaN THEN buf[k] ELSE <<>>]

(* ------------------------------ flusher -------------------------------- *)

\* the logger's fields as one record, threaded through the steps of a call
Fields ==
  [buffer |-> buffer, index |-> index, flushId |-> flushId,
   errorSeen |-> errorSeen, errorLoggedAt |-> errorLoggedAt,
   flushing |-> flushing, flushes |-> flushes, dropped |-> dropped]

\* a flush request that returned at the single-flight guard
Dropped(s, reason, now) == [reason |-> reason, flushId |-> s.flushId, at |-> now]

\* JSON.stringify of the artifact does not throw on the events' data
Serializable(events) ==
  \A i \in DOMAIN events : Stringify(events[i].data) # Throws

\* the artifact with the snapshot taken after the clear
Artifact_AfterClear(s, reason, now, ioOk) ==
  [schema |-> "v1", reason |-> reason, flushId |-> s.flushId,
   flushedAt |-> now, events |-> Snapshot(Clear(s.buffer), s.index, capacity),
   written |-> logDirOk /\ ioOk]

\* the artifact built by _flush; written tells whether stringify and
\* open/write/fsync/close succeeded, i.e. whether the file
\* log-<reason>-<flushId>.json exists: the open fails when the directory is
\* missing
Artifact(s, reason, now, ioOk) ==
  [schema |-> "v1", reason |-> reason, flushId |-> s.flushId,
   flushedAt |-> now, events |-> Snapshot(s.buffer, s.index, capacity),
   written |-> logDirOk /\ ioOk /\
               Serializable(Snapshot(s.buffer, s.index, capacity))]

\* _flush with the clear inside the try block: skipped when the I/O fails
Flush_ClearOnSuccessOnly(s, reason, now, ioOk) ==
  IF s.flushing THEN [s EXCEPT !.dropped = Append(@, Dropped(s, reason, now))]
  ELSE [s EXCEPT !.flushes = Append(@, Artifact(s, reason, now, ioOk)),
                 !.flushing = FALSE,
                 !.buffer = IF ioOk THEN Clear(@) ELSE @]

\* _flush with a clear that also rewinds the cursor
Flush_ResetCursor(s, reason, now, ioOk) ==
  IF s.flushing THEN [s EXCEPT !.dropped = Append(@, Dropped(s, reason, now))]
  ELSE [s EXCEPT !.flushes = Append(@, Artifact(s, reason, now, ioOk)),
                 !.flushing = FALSE,
                 !.buffer = Clear(@),
                 !.index = 0]

\* _flush without the single-flight guard
Flush_IgnoreFlag(s, reason, now, ioOk) ==
  [s EXCEPT !.flushes = Append(@, Artifact(s, reason, now, ioOk)),
            !.flushing = FALSE,
            !.buffer = Clear(@)]

\* _flush with the flag reset at the end of the try block instead of in
\* finally: the flag stays set when the I/O fails
Flush_FlagStuckOnFailure(s, reason, now, ioOk) ==
  IF s.flushing THEN [s EXCEPT !.dropped = Append(@, Dropped(s, reason, now))]
  ELSE [s EXCEPT !.flushes = Append(@, Artifact(s, reason, now, ioOk)),
                 !.flushing = ~(logDirOk /\ ioOk),
                 !.buffer = Clear(@)]

\* _flush whose guard returns through the finally block: a dropped request
\* clears the buffer and resets the flag
Flush_DropThroughFinally(s, reason, now, ioOk) ==
  IF s.flushing
  THEN [s EXCEPT !.dropped = Append(@, Dropped(s, reason, now)),
                 !.flushing = FALSE,
                 !.buffer = Clear(@)]
  ELSE [s EXCEPT !.flushes = Append(@, Artifact(s, reason, now, ioOk)),
                 !.flushing = FALSE,
                 !.buffer = Clear(@)]

\* _flush(reason): dropped when a flush is in flight; otherwise the snapshot
\* is written (or the I/O fails and is caught), flushing is reset and the
\* buffer is cleared
Flush(s, reason, now, ioOk) ==
  IF s.flushing THEN [s EXCEPT !.dropped = Append(@, Dropped(s, reason, now))]
  ELSE [s EXCEPT !.flushes = Append(@, Artifact(s, reason, now, ioOk)),
                 !.flushing = FALSE,
                 !.buffer = Clear(@)]

(* ------------------------------- log() --------------------------------- *)

\* the arming test without the errorSeen guard
ShouldArm_AnyError(s, event) == event = "error"

\* the arming test with the event name compared without regard to case
ShouldArm_AnyCase(s, event) == event \in {"error", "ERROR"} /\ ~s.errorSeen

\* event === 'error' && !this.errorSeen
ShouldArm(s, event) == event = "error" /\ ~s.errorSeen

\* the arming without the increment of flushId
Arm_NoIncrement(s, now, ioOk) ==
  [Flush(s, "pre-error-context", now, ioOk) EXCEPT
     !.errorSeen = TRUE,
     !.errorLoggedAt = s.index]

\* the arming with flushId incremented before the flush
Arm_IncrementBeforeFlush(s, now, ioOk) ==
  [Flush([s EXCEPT !.flushId = @ + 1], "pre-error-context", now, ioOk) EXCEPT
     !.errorSeen = TRUE,
     !.errorLoggedAt = s.index]

\* the arming when a failed file write escapes _flush: the rest of the
\* branch is skipped
Arm_AbortOnIOFailure(s, now, ioOk) ==
  IF logDirOk /\ ioOk
  THEN [Flush(s, "pre-error-context", now, ioOk) EXCEPT
          !.flushId = @ + 1,
          !.errorSeen = TRUE,
          !.errorLoggedAt = s.index]
  ELSE Flush(s, "pre-error-context", now, ioOk)

\* the body of the first if: pre-error flush, then arm
Arm(s, now, ioOk) ==
  [Flush(s, "pre-error-context", now, ioOk) EXCEPT
     !.flushId = @ + 1,
     !.errorSeen = TRUE,
     !.errorLoggedAt = s.index]

\* the wrap test made one slot early
WrapReached_OneEarly(s) ==
  s.errorSeen /\ StrictEq(Advance(s.index, capacity), s.errorLoggedAt)

\* this.errorSeen && this.index === this.errorLoggedAt
WrapReached(s) == s.errorSeen /\ StrictEq(s.index, s.errorLoggedAt)

\* the disarming without the reset of errorSeen
Disarm_StayArmed(s, now, ioOk) ==
  [Flush(s, "post-error-context", now, ioOk) EXCEPT
     !.flushId = @ + 1,
     !.errorLoggedAt = Null]

\* the disarming without the increment of flushId
Disarm_NoIncrement(s, now, ioOk) ==
  [Flush(s, "post-error-context", now, ioOk) EXCEPT
     !.errorSeen = FALSE,
     !.errorLoggedAt = Null]

\* the disarming without the reset of errorLoggedAt
Disarm_KeepSlot(s, now, ioOk) ==
  [Flush(s, "post-error-context", now, ioOk) EXCEPT
     !.flushId = @ + 1,
     !.errorSeen = FALSE]

\* the body of the second if: post-error flush, then disarm
Disarm(s, now, ioOk) ==
  [Flush(s, "post-error-context", now, ioOk) EXCEPT
     !.flushId = @ + 1,
     !.errorSeen = FALSE,
     !.errorLoggedAt = Null]

\* the parameter data = {}: an argument that is undefined or omitted is
\* replaced by a new empty object
DefaultData(data) == IF data = Undefined THEN EmptyObject ELSE data

\* the entry built at the top of log()
NewEntry(event, data) ==
  [ts |-> Len(logged) + 1, flushId |-> flushId, event |-> event,
   data |-> Sanitize(DefaultData(data))]

\* log() with the arming test moved after the advance and the wrap test
LogResult_ArmAfterWrap(event, data, ioPre, ioPost) ==
  LET now == Len(logged) + 1
      s0 == Fields
      s1 == [s0 EXCEPT !.buffer = Write(@, s0.index, NewEntry(event, data))]
      s2 == [s1 EXCEPT !.index = Advance(@, capacity)]
      s3 == IF WrapReached(s2) THEN Disarm(s2, now, ioPost) ELSE s2
  IN  IF ShouldArm(s3, event) THEN Arm(s3, now, ioPre) ELSE s3

\* the fields after log(event, data); ioPre and ioPost tell whether the file
\* I/O of the pre-error and of the post-error flush succeeds
LogResult(event, data, ioPre, ioPost) ==
  LET now == Len(logged) + 1
      s0 == Fields
      s1 == [s0 EXCEPT !.buffer = Write(@, s0.index, NewEntry(event, data))]
      s2 == IF ShouldArm(s1, event) THEN Arm(s1, now, ioPre) ELSE s1
      s3 == [s2 EXCEPT !.index = Advance(@, capacity)]
  IN  IF WrapReached(s3) THEN Disarm(s3, now, ioPost) ELSE s3

\* the flushes whose file could not be written
Failed(fl) == {i \in DOMAIN fl : ~fl[i].written}

Log(event, data, ioPre, ioPost) ==
  /\ Len(logged) < MaxCalls
  /\ logDirOk =>
       Cardinality(Failed(LogResult(event, data, ioPre, ioPost).flushes))
         <= MaxIOFailures
  /\ LET r == LogResult(event, data, ioPre, ioPost)
     IN  /\ buffer' = r.buffer
         /\ index' = r.index
         /\ flushId' = r.flushId
         /\ errorSeen' = r.errorSeen
         /\ errorLoggedAt' = r.errorLoggedAt
         /\ flushing' = r.flushing
         /\ flushes' = r.flushes
         /\ dropped' = r.dropped
  /\ logged' = Append(logged, NewEntry(event, data))
  /\ given' = Append(given, data)
  /\ UNCHANGED <<capacity, logDirOk, held>>

\* an assignment to the field flushing from outside the class, as the test
\* 'should handle concurrent flush attempts' makes to stand for a flush in
\* flight
SetFlushing(v) ==
  /\ flushing # v
  /\ flushing' = v
  /\ UNCHANGED <<capacity, buffer, index, flushId, errorSeen, errorLoggedAt,
                 logDirOk, flushes, dropped, logged, optimized, ultra, given,
                 held>>

(* ------------- bit operations of the optimized implementations --------- *)

\* a | b on non-negative 32-bit integers
RECURSIVE BitOr(_, _)
BitOr(a, b) ==
  IF a = 0 THEN b
  ELSE IF b = 0 THEN a
  ELSE 2 * BitOr(a \div 2, b \div 2) + (IF a % 2 = 1 \/ b % 2 = 1 THEN 1 ELSE 0)

\* a & b on non-negative 32-bit integers
RECURSIVE BitAnd(_, _)
BitAnd(a, b) ==
  IF a = 0 \/ b = 0 THEN 0
  ELSE 2 * BitAnd(a \div 2, b \div 2) + (IF a % 2 = 1 /\ b % 2 = 1 THEN 1 ELSE 0)

\* n |= n >> k
Smear(n, k) == BitOr(n, n \div (2 ^ k))

\* _nextPowerOf2 without the decrement: a power of two is doubled
NextPowerOf2_NoDecrement(n) ==
  IF n <= 1 THEN 1
  ELSE Smear(Smear(Smear(Smear(Smear(n, 1), 2), 4), 8), 16) + 1

\* RingBufferLoggerOptimized._nextPowerOf2
NextPowerOf2(n) ==
  IF n <= 1 THEN 1
  ELSE Smear(Smear(Smear(Smear(Smear(n - 1, 1), 2), 4), 8), 16) + 1

\* the number of bits of x >= 0 without its leading zeros
RECURSIVE BitLength(_)
BitLength(x) == IF x = 0 THEN 0 ELSE 1 + BitLength(x \div 2)

\* Math.clz32(x): a negative x has its top bit set
Clz32(x) == IF x < 0 THEN 0 ELSE 32 - BitLength(x)

\* 1 << k: the shift count is taken modulo 32 and the result is a signed
\* 32-bit integer
ShiftLeftOne(k) == IF k % 32 = 31 THEN 0 - 2 ^ 30 - 2 ^ 30 ELSE 2 ^ (k % 32)

\* the capacity computed by the constructor of RingBufferLoggerUltra
UltraCapacity(n) == ShiftLeftOne(32 - Clz32(n - 1))

\* str.charCodeAt(i) for the event names of this model, from index 1
CharCodes(str) ==
  CASE str = "error" -> <<101, 114, 114, 111, 114>>
    [] str = "info" -> <<105, 110, 102, 111>>
    [] str = "ERROR" -> <<69, 82, 82, 79, 82>>
    [] str = "errpQ" -> <<101, 114, 114, 112, 81>>

\* hash = ((hash << 5) + hash) + code modulo 2^32; a hash is held as its two
\* 16-bit halves <<high, low>>
HashStep(hash, code) ==
  LET low == 33 * hash[2] + code
  IN  <<(33 * hash[1] + low \div 65536) % 65536, low % 65536>>

RECURSIVE HashFrom(_, _, _)
HashFrom(codes, i, hash) ==
  IF i > Len(codes) THEN hash
  ELSE HashFrom(codes, i + 1, HashStep(hash, codes[i]))

\* RingBufferLoggerOptimized._hash: djb2 from 5381, as an unsigned 32-bit
\* integer
Hash(str) == HashFrom(CharCodes(str), 1, <<0, 5381>>)

\* RingBufferLoggerUltra._hash: the same hash masked with INT32_MAX
UltraHash(str) == <<Hash(str)[1] % 32768, Hash(str)[2]>>

\* ERROR_HASH = 0xf6321ef
ERROR_HASH == <<3939, 8687>>

(* ----------------- entry objects of the optimized loggers -------------- *)

\* a buffer cell of an optimized logger: undefined, null, or the entry object
\* with the given identity
Cell(id) == [t |-> "entry", id |-> id]

\* an entry object as the pools create and reset it; the empty string in ts
\* is instant 0, which no log() call has
BlankEntry == [ts |-> 0, flushId |-> 0, event |-> "", data |-> JsNull]

\* the entry objects in the given cells, as values
EntryValues(objects, cells) == [i \in DOMAIN cells |-> objects[cells[i].id]]

(* ---------------- RingBufferLoggerOptimized (object pool) -------------- *)

\* the capacity of ObjectPool.pool (initialSize)
PoolSize == 100

\* { error: 'circular reference' }
CircularReference == Obj([error |-> Text("circular reference", 18)])

\* _fastClone: a deep copy in which long strings are cut and an object met
\* again on the path from the root is replaced by the marker
RECURSIVE FastClone(_, _)
FastClone(v, seen) ==
  LET clone(o, path) ==
        [t |-> "object",
         kind |-> IF o.kind = "array" THEN "array" ELSE "object",
         fields |-> [k \in DOMAIN o.fields |-> FastClone(o.fields[k], path)]]
  IN  CASE v.t = "ref" -> IF v.id \in seen THEN CircularReference
                          ELSE clone(Heap[v.id], seen \cup {v.id})
        [] v.t = "object" -> clone(v, seen)
        [] v.t = "string" -> IF Length(v) > MaxStringLength THEN Truncate(v) ELSE v
        [] OTHER -> v

\* _fastSanitize: null and undefined become {}, any other non-object is
\* stored as it is, an object is cloned
FastSanitize(data) ==
  IF data = JsNull \/ data = Undefined THEN EmptyObject
  ELSE IF data.t \notin {"ref", "object"} THEN data
  ELSE FastClone(data, {})

\* ObjectPool.get: the object released last, or a new one; returns the
\* logger with the object's identity in field got
PoolGet(o) ==
  IF Len(o.pool) > 0
  THEN [o EXCEPT !.got = o.pool[Len(o.pool)],
                 !.pool = SubSeq(@, 1, Len(@) - 1)]
  ELSE [o EXCEPT !.got = Len(o.objects) + 1,
                 !.objects = Append(@, BlankEntry)]

\* ObjectPool.release: the object is reset and pushed unless the pool is full
PoolRelease(o, id) ==
  IF Len(o.pool) < PoolSize
  THEN [o EXCEPT !.objects[id] = BlankEntry, !.pool = Append(@, id)]
  ELSE o

\* _fastSnapshot: the cells holding an entry among index, index+1, ...
RECURSIVE FastSnapshotFrom(_, _)
FastSnapshotFrom(o, i) ==
  IF i >= o.capacity THEN <<>>
  ELSE LET cell == o.buffer[BitAnd(o.index + i, o.capacityMask)]
       IN  (IF cell.t = "entry" THEN <<cell>> ELSE <<>>)
             \o FastSnapshotFrom(o, i + 1)

FastSnapshot(o) == FastSnapshotFrom(o, 0)

\* _clear: every entry in the buffer is released to the pool and its slot
\* set to null
RECURSIVE FastClearFrom(_, _)
FastClearFrom(o, i) ==
  IF i >= o.capacity THEN o
  ELSE IF o.buffer[i].t = "entry"
       THEN FastClearFrom([PoolRelease(o, o.buffer[i].id) EXCEPT
                             !.buffer[i] = JsNull], i + 1)
       ELSE FastClearFrom(o, i + 1)

FastClear(o) == FastClearFrom(o, 0)

\* the artifact assembled by an optimized _flush from the serialized events:
\* thrown tells that JSON.stringify threw on some event's data (nothing is
\* written then), valid that every event's data had a JSON text
PartsArtifact(events, reason, epoch, now, ioOk) ==
  LET texts == [i \in DOMAIN events |-> Stringify(events[i].data)]
      thrown == \E i \in DOMAIN texts : texts[i] = Throws
  IN  [schema |-> "v1", reason |-> reason, flushId |-> epoch,
       flushedAt |-> now, events |-> events,
       written |-> logDirOk /\ ioOk /\ ~thrown,
       valid |-> \A i \in DOMAIN texts : texts[i] \notin {Throws, Undefined}]

\* RingBufferLoggerOptimized._flush
FastFlush(o, reason, now, ioOk) ==
  IF o.flushing THEN o
  ELSE LET events == EntryValues(o.objects, FastSnapshot(o))
       IN  FastClear([o EXCEPT
                        !.flushes = Append(@, PartsArtifact(events, reason,
                                                            o.flushId, now, ioOk)),
                        !.flushing = FALSE])

\* RingBufferLoggerOptimized.log
FastLog(o0, event, data, now, ioPre, ioPost) ==
  LET eventHash == Hash(event)
      o1 == PoolGet(o0)
      entry == [ts |-> now, flushId |-> o0.flushId, event |-> event,
                data |-> FastSanitize(DefaultData(data))]
      o2 == [o1 EXCEPT !.objects[o1.got] = entry,
                       !.buffer[o1.index] = Cell(o1.got)]
      o3 == IF eventHash = o2.errorHash /\ ~o2.errorSeen
            THEN [FastFlush(o2, "pre-error-context", now, ioPre) EXCEPT
                    !.flushId = @ + 1,
                    !.errorSeen = TRUE,
                    !.errorLoggedAt = o2.index]
            ELSE o2
      o4 == [o3 EXCEPT !.index = BitAnd(@ + 1, o3.capacityMask)]
  IN  IF o4.errorSeen /\ o4.index = o4.errorLoggedAt
      THEN [FastFlush(o4, "post-error-context", now, ioPost) EXCEPT
              !.flushId = @ + 1,
              !.errorSeen = FALSE,
              !.errorLoggedAt = Null]
      ELSE o4

\* the constructor of RingBufferLoggerOptimized
NewOptimized(n) ==
  [capacity |-> NextPowerOf2(n),
   capacityMask |-> NextPowerOf2(n) - 1,
   buffer |-> [k \in 0..(NextPowerOf2(n) - 1) |-> Undefined],
   index |-> 0, flushId |-> 0, errorSeen |-> FALSE, errorLoggedAt |-> Null,
   flushing |-> FALSE, errorHash |-> Hash("error"),
   objects |-> <<>>, pool |-> <<>>, got |-> 0, flushes |-> <<>>]

\* RingBufferLoggerOptimized.getStats
FastStats(o) ==
  [capacity |-> o.capacity, currentIndex |-> o.index, flushId |-> o.flushId,
   errorSeen |-> o.errorSeen, errorLoggedAt |-> o.errorLoggedAt,
   flushing |-> o.flushing]

(* ------------------ RingBufferLoggerUltra (bit-optimized) -------------- *)

\* a string longer than 1000 units is cut, any other value is kept as it is
CutIfLong(v) ==
  IF v.t = "string" /\ Length(v) > MaxStringLength THEN Truncate(v) ELSE v

\* _ultraSanitize: null and undefined become {}; a plain object or an array
\* is copied one level deep, its values kept as they are but for long
\* strings; any other object goes through the JSON round trip
UltraSanitize(data) ==
  IF data = JsNull \/ data = Undefined THEN EmptyObject
  ELSE IF data.t \notin {"ref", "object"} THEN CutIfLong(data)
  ELSE LET o == IF data.t = "ref" THEN Heap[data.id] ELSE data
       IN  IF o.kind \in {"object", "array"}
           THEN [t |-> "object", kind |-> o.kind,
                 fields |-> [k \in DOMAIN o.fields |-> CutIfLong(o.fields[k])]]
           ELSE LET r == JsonValue(data, {}, TRUE)
                IN  IF r = Throws \/ r = Undefined THEN SerializationFailed
                    ELSE r

\* UltraObjectPool.get: the first unused pool object from top on, or a new
\* object outside the pool
UltraPoolGet(u) ==
  LET free == {i \in u.top..(Len(u.used) - 1) : u.used[i + 1] = 0}
      first == CHOOSE i \in free : \A j \in free : i <= j
  IN  IF free # {}
      THEN [u EXCEPT !.got = first + 1, !.used[first + 1] = 1,
                     !.top = first + 1]
      ELSE [u EXCEPT !.got = Len(u.objects) + 1,
                     !.objects = Append(@, BlankEntry),
                     !.top = Len(u.used)]

\* UltraObjectPool.release: a pool object is marked unused and reset
UltraPoolRelease(u, id) ==
  IF id <= Len(u.used)
  THEN [u EXCEPT !.used[id] = 0, !.top = Min(@, id - 1),
                 !.objects[id] = BlankEntry]
  ELSE u

\* _ultraSnapshot: the cells that are not undefined among index, index+1, ...
RECURSIVE UltraSnapshotFrom(_, _)
UltraSnapshotFrom(u, i) ==
  IF i >= u.capacity THEN <<>>
  ELSE LET cell == u.buffer[BitAnd(u.index + i, u.capacityMask)]
       IN  (IF cell # Undefined THEN <<cell>> ELSE <<>>)
             \o UltraSnapshotFrom(u, i + 1)

UltraSnapshot(u) == UltraSnapshotFrom(u, 0)

\* _ultraClear: every entry in the buffer is released to the pool and its
\* slot set to undefined
RECURSIVE UltraClearFrom(_, _)
UltraClearFrom(u, i) ==
  IF i >= u.capacity THEN u
  ELSE IF u.buffer[i].t = "entry"
       THEN UltraClearFrom([UltraPoolRelease(u, u.buffer[i].id) EXCEPT
                              !.buffer[i] = Undefined], i + 1)
       ELSE UltraClearFrom(u, i + 1)

UltraClear(u) == UltraClearFrom(u, 0)

\* RingBufferLoggerUltra._flush
UltraFlush(u, reason, now, ioOk) ==
  IF u.flushing # 0 THEN u
  ELSE LET events == EntryValues(u.objects, UltraSnapshot(u))
       IN  UltraClear([u EXCEPT
                         !.flushes = Append(@, PartsArtifact(events, reason,
                                                             u.flushId, now, ioOk)),
                         !.flushing = 0])

\* RingBufferLoggerUltra.log
UltraLog(u0, event, data, now, ioPre, ioPost) ==
  LET eventHash == UltraHash(event)
      u1 == UltraPoolGet(u0)
      entry == [ts |-> now, flushId |-> u0.flushId, event |-> event,
                data |-> UltraSanitize(DefaultData(data))]
      idx == u0.index
      u2 == [u1 EXCEPT !.objects[u1.got] = entry,
                       !.buffer[idx] = Cell(u1.got)]
      u3 == IF eventHash = ERROR_HASH /\ u2.errorSeen = 0
            THEN [UltraFlush(u2, "pre-error-context", now, ioPre) EXCEPT
                    !.flushId = @ + 1,
                    !.errorSeen = 1,
                    !.errorLoggedAt = idx]
            ELSE u2
      u4 == [u3 EXCEPT !.index = BitAnd(idx + 1, u3.capacityMask)]
  IN  IF u4.errorSeen # 0 /\ u4.index = u4.errorLoggedAt
      THEN [UltraFlush(u4, "post-error-context", now, ioPost) EXCEPT
              !.flushId = @ + 1,
              !.errorSeen = 0,
              !.errorLoggedAt = Null]
      ELSE u4

\* the constructor of RingBufferLoggerUltra; the pool holds capacity * 2
\* entry objects
NewUltra(n) ==
  [capacity |-> UltraCapacity(n),
   capacityMask |-> UltraCapacity(n) - 1,
   buffer |-> [k \in 0..(UltraCapacity(n) - 1) |-> Undefined],
   index |-> 0, flushId |-> 0, errorSeen |-> 0, errorLoggedAt |-> Null,
   flushing |-> 0,
   objects |-> [i \in 1..(UltraCapacity(n) * 2) |-> BlankEntry],
   used |-> [i \in 1..(UltraCapacity(n) * 2) |-> 0],
   top |-> 0, got |-> 0, flushes |-> <<>>]

\* RingBufferLoggerUltra.getStats
UltraStats(u) ==
  [capacity |-> u.capacity, currentIndex |-> u.index, flushId |-> u.flushId,
   errorSeen |-> u.errorSeen # 0, errorLoggedAt |-> u.errorLoggedAt,
   flushing |-> u.flushing # 0]

(* --------------------------- specification ----------------------------- *)

\* the three constructors called with capacity n; the directory exists
\* afterwards unless mkdirSync failed (the failure is caught)
\* a caller that has read nothing yet
NoReads ==
  [reads |-> 0, entries |-> <<>>, stats |-> <<>>,
   fast |-> <<>>, fastSeen |-> <<>>, ultra |-> <<>>, ultraSeen |-> <<>>]

Construct(n, dirOk) ==
  /\ capacity = n
  /\ logDirOk = dirOk
  /\ dropped = <<>>
  /\ buffer = NewBuffer(n)
  /\ index = 0
  /\ flushId = 0
  /\ errorSeen = FALSE
  /\ errorLoggedAt = Null
  /\ flushing = FALSE
  /\ flushes = <<>>
  /\ logged = <<>>
  /\ optimized = NewOptimized(n)
  /\ ultra = NewUltra(n)
  /\ given = <<>>
  /\ held = NoReads

\* a logger of every capacity up to MaxCapacity
Init == \E n \in 0..MaxCapacity, dirOk \in BOOLEAN : Construct(n, dirOk)

\* log() calls on the baseline logger
Next ==
  \E event \in Events, data \in Payloads, ioPre \in BOOLEAN, ioPost \in BOOLEAN :
    /\ Log(event, data, ioPre, ioPost)
    /\ UNCHANGED <<optimized, ultra>>

Spec == Init /\ [][Next]_vars

\* log() calls on a logger whose flushing field is also assigned from outside
NextWithFlag ==
  \/ Next
  \/ \E v \in BOOLEAN : SetFlushing(v)

SpecWithFlag == Init /\ [][NextWithFlag]_vars

\* the same log() call made on the three implementations
LogAll(event, data) ==
  /\ Log(event, data, TRUE, TRUE)
  /\ optimized' = FastLog(optimized, event, data, Len(logged) + 1, TRUE, TRUE)
  /\ ultra' = UltraLog(ultra, event, data, Len(logged) + 1, TRUE, TRUE)

\* event names given to the three implementations: those of Events and a
\* name with the djb2 hash of 'error'
EventNames == Events \cup {"errpQ"}

\* loggers of every requested capacity up to MaxRequested
InitThree == \E n \in 0..MaxRequested : Construct(n, TRUE)

NextThree == \E event \in EventNames, data \in Payloads : LogAll(event, data)

SpecThree == InitThree /\ [][NextThree]_vars

\* payloads of every shape given to the three implementations
InitPayloads == \E n \in 1..MaxCapacity : Construct(n, TRUE)

NextPayloads ==
  \E event \in {"info", "error"}, data \in AllPayloads :
    /\ Len(logged) < MaxPayloadCalls
    /\ LogAll(event, data)

SpecPayloads == InitPayloads /\ [][NextPayloads]_vars

\* the timers set by the callers: timer i belongs to source i % 2 and its
\* callback makes one log() call; every third one logs an error
Timers == 0..(NumTimers - 1)

TimerEvent(i) == IF i % 3 = 2 THEN "error" ELSE "info"

TimerPayload(i) == Obj([source |-> Num(i % 2), message |-> Num(i)])

\* the event loop runs the callback of a timer that has not fired yet: one
\* whole log() call
Fire(i) ==
  /\ \A k \in DOMAIN given : given[k] # TimerPayload(i)
  /\ Log(TimerEvent(i), TimerPayload(i), TRUE, TRUE)
  /\ UNCHANGED <<optimized, ultra>>

InitTimers == \E n \in 0..MaxCapacity : Construct(n, TRUE)

\* the timers fire in any order
NextTimers == \E i \in Timers : Fire(i)

SpecTimers == InitTimers /\ [][NextTimers]_vars

(* ------------------------------ reading -------------------------------- *)

\* getCurrentBuffer()
GetCurrentBuffer == Snapshot(buffer, index, capacity)

(* ------------------------- notions of the claims ------------------------ *)

Range(q) == {q[i] : i \in DOMAIN q}

\* the entry created by the call that has just returned (in a step: logged')
LastLogged(lg) == lg[Len(lg)]

\* the flushes with the given reason among flushes a+1 .. b of a sequence
FlushesBetween(fl, a, b, reason) ==
  {i \in (a + 1)..b : fl[i].reason = reason}

\* an event sequence is in log order: strictly increasing creation instants
InLogOrder(q) == \A i, j \in DOMAIN q : i < j => q[i].ts < q[j].ts

(* -------------------------------- C1 ----------------------------------- *)

\* C1: a log('error') call made while Idle performs exactly one pre-error
\* flush, at the epoch in effect before it, and returns with flushId one
\* higher, errorLoggedAt equal to the cursor before the advance, and
\* errorSeen true.
C1_ArmingCallLeavesArmed ==
  [][(~errorSeen /\ LastLogged(logged').event = "error")
       => /\ Len(flushes') = Len(flushes) + 1
          /\ flushes'[Len(flushes')].reason = "pre-error-context"
          /\ flushes'[Len(flushes')].flushId = flushId
          /\ flushId' = flushId + 1
          /\ errorLoggedAt' = index
          /\ errorSeen' = TRUE]_vars

(* -------------------------------- C2 ----------------------------------- *)

\* C2 as stated: an 'error' event logged while Armed triggers no pre-error
\* flush, does not change flushId and does not move errorLoggedAt.
C2_ErrorWhileArmedChangesNothing ==
  [][(errorSeen /\ LastLogged(logged').event = "error")
       => /\ FlushesBetween(flushes', Len(flushes), Len(flushes'),
                            "pre-error-context") = {}
          /\ flushId' = flushId
          /\ errorLoggedAt' = errorLoggedAt]_vars

\* C2 (amended): an 'error' event logged while Armed triggers no pre-error
\* flush; unless the cursor advance of that call returns to errorLoggedAt
\* (then the post-error flush runs as for any other event), it runs no flush
\* at all, is stored in its slot, and leaves flushId, errorLoggedAt and
\* errorSeen as they were.
C2_ErrorWhileArmedIsOrdinary ==
  [][(errorSeen /\ LastLogged(logged').event = "error")
       => /\ FlushesBetween(flushes', Len(flushes), Len(flushes'),
                            "pre-error-context") = {}
          /\ ~StrictEq(index', errorLoggedAt)
               => /\ flushes' = flushes
                  /\ buffer'[index] = <<LastLogged(logged')>>
                  /\ flushId' = flushId
                  /\ errorLoggedAt' = errorLoggedAt
                  /\ errorSeen' = TRUE]_vars

\* two 'error' events in a row have been logged and the logger is still
\* Armed at the epoch of the first one
C2_Witness ==
  /\ Len(logged) >= 2
  /\ logged[Len(logged)].event = "error"
  /\ logged[Len(logged) - 1].event = "error"
  /\ errorSeen
  /\ flushes # <<>>
  /\ flushes[Len(flushes)].reason = "pre-error-context"
  /\ flushes[Len(flushes)].flushedAt < Len(logged)
  /\ flushId = flushes[Len(flushes)].flushId + 1

(* -------------------------------- C3 ----------------------------------- *)

\* the slot the logger is armed on during a call, after the arming step:
\* errorLoggedAt when the call started Armed, the cursor before the advance
\* when the call itself arms, null when the call runs Idle throughout
ArmedSlotInCall(event) ==
  IF errorSeen THEN errorLoggedAt
  ELSE IF event = "error" THEN index ELSE Null

\* the epoch in effect after the arming step of a call
EpochAfterArming(event) ==
  IF ~errorSeen /\ event = "error" THEN flushId + 1 ELSE flushId

\* C3: the post-error flush runs in a log() call if and only if the logger
\* is Armed in that call and the advanced cursor equals (===) the armed
\* slot; it then runs once, as the last flush of the call, at the epoch
\* current at that point, after which flushId is one higher, errorLoggedAt is
\* null and errorSeen is false. A call that started Armed and does not reach
\* the slot runs no flush and stays Armed on the same slot and epoch.
C3_PostFlushExactlyAtWrap ==
  [][LET event == LastLogged(logged').event
         slot == ArmedSlotInCall(event)
         epoch == EpochAfterArming(event)
         posts == FlushesBetween(flushes', Len(flushes), Len(flushes'),
                                 "post-error-context")
     IN  IF slot # Null /\ StrictEq(index', slot)
         THEN /\ posts = {Len(flushes')}
              /\ flushes'[Len(flushes')].flushId = epoch
              /\ flushId' = epoch + 1
              /\ errorLoggedAt' = Null
              /\ errorSeen' = FALSE
         ELSE /\ posts = {}
              /\ errorSeen
                   => /\ flushes' = flushes
                      /\ flushId' = flushId
                      /\ errorLoggedAt' = errorLoggedAt
                      /\ errorSeen' = TRUE]_vars

\* an armed window of a logger of capacity >= 2 has been closed by a
\* post-error flush in a later call than the one that armed it
C3_Witness ==
  /\ capacity >= 2
  /\ Len(flushes) >= 2
  /\ flushes[Len(flushes)].reason = "post-error-context"
  /\ flushes[Len(flushes) - 1].reason = "pre-error-context"
  /\ flushes[Len(flushes) - 1].flushedAt < flushes[Len(flushes)].flushedAt
  /\ ~errorSeen
  /\ errorLoggedAt = Null

(* -------------------------------- C4 ----------------------------------- *)

\* C4: for capacity >= 1, the artifact of a pre-error flush holds the entries
\* that were in the buffer before the call (without the oldest one when the
\* buffer was full) together with the triggering error entry: min(m+1, C)
\* events for m entries retained before the call; it is named by the epoch
\* in effect before the flush.
C4_PreErrorArtifactContents ==
  [][(capacity >= 1 /\ ~errorSeen /\ LastLogged(logged').event = "error")
       => LET before == Snapshot(buffer, index, capacity)
              m == Len(before)
              kept == IF m = capacity THEN Tail(before) ELSE before
              a == flushes'[Len(flushes) + 1]
          IN  /\ Len(flushes') > Len(flushes)
              /\ a.reason = "pre-error-context"
              /\ a.flushId = flushId
              /\ Len(a.events) = Min(m + 1, capacity)
              /\ Range(a.events) = Range(kept) \cup {LastLogged(logged')}]_vars

\* two ordinary events and then an error on a logger of capacity >= 3: the
\* artifact of epoch 0 has 3 events, flushId is 1 and the logger is Armed
C4_Witness ==
  /\ capacity >= 3
  /\ Len(logged) = 3
  /\ logged[1].event = "info" /\ logged[2].event = "info"
  /\ logged[3].event = "error"
  /\ Len(flushes) = 1
  /\ flushes[1].reason = "pre-error-context"
  /\ flushes[1].flushId = 0
  /\ flushes[1].written
  /\ Len(flushes[1].events) = 3
  /\ flushId = 1
  /\ errorSeen

(* -------------------------------- C5 ----------------------------------- *)

\* the calls k+1 .. k+n have been made and none of them logged 'error'
NonErrorCalls(k, n) ==
  /\ Len(logged) >= k + n
  /\ \A j \in (k + 1)..(k + n) : logged[j].event # "error"

\* the post-error flushes that ran at epoch e
PostFlushesAt(e) ==
  {i \in DOMAIN flushes : /\ flushes[i].reason = "post-error-context"
                          /\ flushes[i].flushId = e}

\* C5: for capacity C >= 1, when call k armed the logger with a pre-error
\* flush of epoch e and the C calls after it logged no 'error', exactly one
\* post-error flush of epoch e+1 has run, within those calls; right after
\* the C-th of them errorSeen is false and flushId is e+2.
C5_PostFlushWithinCapacityCalls ==
  capacity >= 1 =>
    \A i \in DOMAIN flushes :
      (/\ flushes[i].reason = "pre-error-context"
       /\ NonErrorCalls(flushes[i].flushedAt, capacity))
        => LET k == flushes[i].flushedAt
               e == flushes[i].flushId
           IN  /\ Cardinality(PostFlushesAt(e + 1)) = 1
               /\ \A n \in PostFlushesAt(e + 1) :
                    /\ flushes[n].flushedAt \in k..(k + capacity)
                    /\ n = i + 1
               /\ Len(logged) = k + capacity
                    => (~errorSeen /\ errorLoggedAt = Null /\ flushId = e + 2)

\* a logger of capacity >= 2 was armed after some context, C ordinary calls
\* followed, and the post-error artifact of the next epoch is on disk
C5_Witness ==
  /\ capacity >= 2
  /\ \E i \in DOMAIN flushes :
       /\ flushes[i].reason = "pre-error-context"
       /\ flushes[i].flushedAt >= 2
       /\ Len(logged) = flushes[i].flushedAt + capacity
       /\ NonErrorCalls(flushes[i].flushedAt, capacity)
       /\ \E n \in PostFlushesAt(flushes[i].flushId + 1) : flushes[n].written
       /\ flushId = flushes[i].flushId + 2
       /\ ~errorSeen

(* -------------------------------- C6 ----------------------------------- *)

\* C6: for capacity >= 1, the events of every artifact are in log order,
\* oldest first, and the last event of a pre-error artifact is the error
\* entry that triggered it.
C6_ArtifactEventsOldestFirst ==
  capacity >= 1 =>
    \A i \in DOMAIN flushes :
      LET a == flushes[i] IN
        /\ InLogOrder(a.events)
        /\ a.reason = "pre-error-context"
             => /\ a.events # <<>>
                /\ a.events[Len(a.events)] = logged[a.flushedAt]

(* -------------------------------- C7 ----------------------------------- *)

\* C7: after a log() call in which a flush ran, with or without an I/O
\* failure, getCurrentBuffer() is empty.
C7_EmptyAfterFlushingCall ==
  [][Len(flushes') > Len(flushes)
       => Snapshot(buffer', index', capacity') = <<>>]_vars

\* the call that has just returned ran a flush on a buffer that held
\* entries, the file I/O of that flush failed, and the buffer is empty
C7_Witness ==
  /\ capacity >= 2
  /\ flushes # <<>>
  /\ flushes[Len(flushes)].flushedAt = Len(logged)
  /\ Len(flushes[Len(flushes)].events) >= 2
  /\ ~flushes[Len(flushes)].written
  /\ GetCurrentBuffer = <<>>

(* -------------------------------- C8 ----------------------------------- *)

\* no call so far logged 'error'
NoErrorLogged == \A j \in DOMAIN logged : logged[j].event # "error"

\* C8: for capacity C >= 1, after N calls none of which logged 'error',
\* getCurrentBuffer() has min(N, C) entries.
C8_LengthIsMinOfCallsAndCapacity ==
  (capacity >= 1 /\ NoErrorLogged)
    => Len(GetCurrentBuffer) = Min(Len(logged), capacity)

\* more error-free calls than slots: the buffer is full
C8_Witness ==
  /\ capacity >= 2
  /\ NoErrorLogged
  /\ Len(logged) > capacity
  /\ Len(GetCurrentBuffer) = capacity

(* -------------------------------- C9 ----------------------------------- *)

\* C9: for capacity C >= 1, after N calls none of which logged 'error',
\* getCurrentBuffer() is the sequence of the last min(N, C) entries logged,
\* oldest first.
C9_HoldsLastEntriesInOrder ==
  (capacity >= 1 /\ NoErrorLogged)
    => GetCurrentBuffer =
         SubSeq(logged, Len(logged) - Min(Len(logged), capacity) + 1,
                Len(logged))

\* the cursor has wrapped and is not at slot 0: the two oldest entries have
\* been overwritten and the snapshot starts in the middle of the array
C9_Witness ==
  /\ capacity >= 3
  /\ NoErrorLogged
  /\ Len(logged) = capacity + 2
  /\ index = 2
  /\ GetCurrentBuffer[1] = logged[3]
  /\ GetCurrentBuffer[capacity] = logged[capacity + 2]

(* -------------------------------- C10 ---------------------------------- *)

\* C10: after any sequence of calls, getCurrentBuffer() lists entries that
\* were logged, each once, in the order in which they were logged.
C10_SnapshotInLogOrder ==
  /\ InLogOrder(GetCurrentBuffer)
  /\ \A i \in DOMAIN GetCurrentBuffer :
       /\ GetCurrentBuffer[i].ts \in DOMAIN logged
       /\ GetCurrentBuffer[i] = logged[GetCurrentBuffer[i].ts]

\* after a flush the entries logged since then straddle the end of the
\* array: slot 0 holds a newer entry than the last slot
C10_Witness ==
  /\ capacity >= 2
  /\ flushes # <<>>
  /\ Len(GetCurrentBuffer) >= 2
  /\ buffer[0] # <<>>
  /\ buffer[capacity - 1] # <<>>
  /\ buffer[0][1].ts > buffer[capacity - 1][1].ts

(* -------------------------------- C11 ---------------------------------- *)

\* C11: for capacity C >= 1, after N log() calls the cursor is N mod C, a
\* slot index in [0, C), whatever flushes ran in those calls.
C11_CursorIsCallsModCapacity ==
  capacity >= 1
    => /\ index = Len(logged) % capacity
       /\ index \in 0..(capacity - 1)

\* both flushes of an armed window have run with the cursor away from slot
\* 0, and the cursor is still the call count modulo the capacity
C11_Witness ==
  /\ capacity >= 2
  /\ Len(flushes) >= 2
  /\ flushes[1].flushedAt >= 2
  /\ Len(logged) > capacity
  /\ index # 0
  /\ index = Len(logged) % capacity

(* -------------------------------- C12 ---------------------------------- *)

\* C12: with capacity 1, a log('error') call made while Idle runs the
\* pre-error flush (1 event) and returns Armed; the next log() call, made
\* while Armed, runs the post-error flush.
C12_CapacityOnePostFlushInNextCall ==
  [][capacity = 1
       => /\ (~errorSeen /\ LastLogged(logged').event = "error")
               => /\ flushes' = Append(flushes, flushes'[Len(flushes')])
                  /\ flushes'[Len(flushes')].reason = "pre-error-context"
                  /\ Len(flushes'[Len(flushes')].events) = 1
                  /\ errorSeen' = TRUE
          /\ errorSeen
               => /\ Len(flushes') = Len(flushes) + 1
                  /\ flushes'[Len(flushes')].reason = "post-error-context"
                  /\ errorSeen' = FALSE]_vars

(* -------------------------------- C13 ---------------------------------- *)

\* C13: with capacity 0, getCurrentBuffer() is empty after every call and
\* the artifact of every flush has an empty events array.
C13_CapacityZeroRetainsNothing ==
  capacity = 0
    => /\ GetCurrentBuffer = <<>>
       /\ \A i \in DOMAIN flushes : flushes[i].events = <<>>

\* a capacity-0 logger has written its pre-error artifact, with no events,
\* and has been called again since
C13_Witness ==
  /\ capacity = 0
  /\ Len(logged) >= 3
  /\ logged[1].event = "error"
  /\ Len(flushes) = 1
  /\ flushes[1].written
  /\ flushes[1].events = <<>>
  /\ NaN \in DOMAIN buffer
  /\ GetCurrentBuffer = <<>>

(* -------------------------------- C14 ---------------------------------- *)

\* C14: flushId starts at 0 and every log() call raises it by exactly the
\* number of flushes that ran in the call (so it never decreases and a call
\* without a flush leaves it unchanged).
C14_EpochCountsFlushes ==
  /\ flushId = Len(flushes)
  /\ \A i \in DOMAIN flushes : flushes[i].flushId = i - 1

\* a second armed window has been opened: three flushes, flushId 3
C14_Witness ==
  /\ Len(flushes) = 3
  /\ flushId = 3
  /\ flushes[3].reason = "pre-error-context"
  /\ flushes[3].flushedAt < Len(logged)

(* -------------------------------- C15 ---------------------------------- *)

\* the file name log-<reason>-<flushId>.json of an artifact
FileName(a) == <<a.reason, a.flushId>>

\* C15: no two flushes run at the same flushId, so no two flushes write to
\* the same file name.
C15_FileNamesNeverCollide ==
  \A i, j \in DOMAIN flushes :
    i # j => /\ flushes[i].flushId # flushes[j].flushId
             /\ FileName(flushes[i]) # FileName(flushes[j])

\* two pre-error and one post-error artifact are on disk
C15_Witness ==
  /\ Len(flushes) >= 3
  /\ \A i \in DOMAIN flushes : flushes[i].written
  /\ flushes[1].reason = flushes[3].reason

(* -------------------------------- C16 ---------------------------------- *)

\* C16: a step taken while flushing is set writes no artifact, and a flush
\* request that was dropped is never run afterwards: no flush, in that call
\* or in any later one, runs at the epoch of a dropped request.
C16_DroppedFlushNeverRuns ==
  [][/\ flushing => flushes' = flushes
     /\ \A i \in DOMAIN dropped' :
          \A j \in DOMAIN flushes' :
            flushes'[j].flushId # dropped'[i].flushId]_vars

\* a flush request was dropped, the flag has been released since, and a
\* later call has written the artifact of its own flush
C16_Witness ==
  /\ dropped # <<>>
  /\ ~flushing
  /\ \E j \in DOMAIN flushes :
       /\ flushes[j].flushedAt > dropped[1].at
       /\ flushes[j].written

(* -------------------------------- C17 ---------------------------------- *)

\* C17: whatever the outcome of the file I/O of its flushes, a log() call
\* ends with the buffer, cursor, flushId, errorSeen, errorLoggedAt and
\* flushing it would have after successful I/O, and has built the same
\* artifacts; only their being written differs.
C17_IOFailureOnlyLosesArtifact ==
  [][\E data \in Payloads :
       LET ok == LogResult(LastLogged(logged').event, data, TRUE, TRUE)
       IN  /\ buffer' = ok.buffer
           /\ index' = ok.index
           /\ flushId' = ok.flushId
           /\ errorSeen' = ok.errorSeen
           /\ errorLoggedAt' = ok.errorLoggedAt
           /\ flushing' = ok.flushing
           /\ Len(flushes') = Len(ok.flushes)
           /\ \A i \in DOMAIN flushes' :
                [flushes'[i] EXCEPT !.written = TRUE]
                  = [ok.flushes[i] EXCEPT !.written = TRUE]]_vars

\* the directory exists, the file I/O of the pre-error flush that has just
\* run failed, and the logger is Armed at the next epoch with an empty buffer
C17_Witness ==
  /\ logDirOk
  /\ capacity >= 2
  /\ flushes # <<>>
  /\ flushes[Len(flushes)].flushedAt = Len(logged)
  /\ flushes[Len(flushes)].reason = "pre-error-context"
  /\ Len(flushes[Len(flushes)].events) >= 2
  /\ ~flushes[Len(flushes)].written
  /\ errorSeen
  /\ flushId = flushes[Len(flushes)].flushId + 1
  /\ GetCurrentBuffer = <<>>

(* -------------------------------- C18 ---------------------------------- *)

\* the last flush, if any, ran in the call that has just returned
FlushedInLastCall ==
  flushes # <<>> /\ flushes[Len(flushes)].flushedAt = Len(logged)

\* C18: on a logger whose directory could not be created, no flush writes
\* its file, and yet every flush clears the buffer and advances the state
\* machine: flushId counts the flushes, the logger is Armed exactly after a
\* pre-error flush, the cursor keeps counting the calls, and without a
\* flush in between the buffer retains the entries logged.
C18_MissingDirectoryLosesOnlyFiles ==
  ~logDirOk
    => /\ \A i \in DOMAIN flushes : ~flushes[i].written
       /\ flushId = Len(flushes)
       /\ errorSeen <=> (flushes # <<>> /\
                         flushes[Len(flushes)].reason = "pre-error-context")
       /\ FlushedInLastCall => GetCurrentBuffer = <<>>
       /\ capacity >= 1 => index = Len(logged) % capacity
       /\ (capacity >= 1 /\ flushes = <<>>)
            => Len(GetCurrentBuffer) = Min(Len(logged), capacity)

\* without a directory, both flushes of an armed window have failed, the
\* second one on a buffer that held entries, and the logger is Idle again
C18_Witness ==
  /\ ~logDirOk
  /\ capacity >= 2
  /\ Len(flushes) = 2
  /\ flushes[2].events # <<>>
  /\ FlushedInLastCall
  /\ ~errorSeen
  /\ flushId = 2
  /\ GetCurrentBuffer = <<>>

(* -------------------------------- C19 ---------------------------------- *)

\* C19: between log() calls errorLoggedAt is non-null if and only if
\* errorSeen is true.
C19_SlotSetIffArmed ==
  (errorLoggedAt # Null) <=> errorSeen

\* the logger has been armed, disarmed, and is armed again
C19_Witness ==
  /\ Len(flushes) = 3
  /\ errorSeen
  /\ errorLoggedAt # Null

(* -------------------------------- C20 ---------------------------------- *)

\* C20: every entry carries the flushId in effect when its call started;
\* every event of an artifact has the artifact's flushId; between calls
\* every entry getCurrentBuffer() returns has the current flushId.
C20_EntriesCarryCurrentEpoch ==
  /\ \A i \in DOMAIN flushes :
       \A n \in DOMAIN flushes[i].events :
         flushes[i].events[n].flushId = flushes[i].flushId
  /\ \A n \in DOMAIN GetCurrentBuffer : GetCurrentBuffer[n].flushId = flushId
  /\ \A k \in DOMAIN logged :
       logged[k].flushId =
         Cardinality({i \in DOMAIN flushes : flushes[i].flushedAt < k})

\* a post-error artifact with events of epoch 1 is on disk and the buffer
\* holds an entry of epoch 2
C20_Witness ==
  /\ Len(flushes) = 2
  /\ flushes[2].reason = "post-error-context"
  /\ flushes[2].events # <<>>
  /\ flushes[2].events[1].flushId = 1
  /\ GetCurrentBuffer # <<>>
  /\ GetCurrentBuffer[1].flushId = 2

(* -------------------------------- C21 ---------------------------------- *)

\* C21: a single log() call runs the flusher 0, 1 or 2 times: at most one
\* pre-error flush and at most one post-error flush, and when both run in one
\* call the pre-error flush comes first.
C21_AtMostTwoFlushesPerCall ==
  [][LET pres == FlushesBetween(flushes', Len(flushes), Len(flushes'),
                                "pre-error-context")
         posts == FlushesBetween(flushes', Len(flushes), Len(flushes'),
                                 "post-error-context")
     IN  /\ Len(flushes') - Len(flushes) \in {0, 1, 2}
         /\ SubSeq(flushes', 1, Len(flushes)) = flushes
         /\ pres \cup posts = (Len(flushes) + 1)..Len(flushes')
         /\ Cardinality(pres) <= 1
         /\ Cardinality(posts) <= 1
         /\ \A i \in pres, j \in posts : i < j]_vars

\* one call has run both flushes, and an earlier call has run one flush only
C21_Witness ==
  /\ Len(flushes) >= 3
  /\ flushes[Len(flushes)].flushedAt = flushes[Len(flushes) - 1].flushedAt
  /\ flushes[Len(flushes) - 1].reason = "pre-error-context"
  /\ flushes[Len(flushes)].reason = "post-error-context"
  /\ flushes[Len(flushes) - 2].flushedAt < flushes[Len(flushes) - 1].flushedAt

(* -------------------------------- C22 ---------------------------------- *)

\* the timer whose callback made the k-th call
FiredAt(k) == given[k].fields.message.v

\* C22: log() calls issued by several sources through timers never
\* interleave inside a call: whatever the firing order, the calls made are
\* those of the fired timers, each run whole and in firing order, no flush is
\* in flight between callbacks, the cursor has advanced once per call, and
\* with no error event the buffer holds exactly the last min(calls, C)
\* entries.
C22_TimerCallsRunWhole ==
  /\ Len(logged) = Len(given)
  /\ \A k \in DOMAIN given :
       /\ FiredAt(k) \in Timers
       /\ logged[k].ts = k
       /\ logged[k].event = TimerEvent(FiredAt(k))
       /\ logged[k].data = TimerPayload(FiredAt(k))
  /\ \A j, k \in DOMAIN given : j # k => FiredAt(j) # FiredAt(k)
  /\ ~flushing
  /\ flushId = Len(flushes)
  /\ capacity >= 1 => index = Len(given) % capacity
  /\ NoErrorLogged
       => /\ Len(GetCurrentBuffer) = Min(Len(given), capacity)
          /\ GetCurrentBuffer =
               SubSeq(logged, Len(logged) - Min(Len(given), capacity) + 1,
                      Len(logged))
  /\ ~NoErrorLogged => flushId >= 1

\* three timers of two sources have fired out of their setting order on a
\* logger of capacity 2, none of them logging an error
C22_Witness ==
  /\ capacity = 2
  /\ Len(given) = 3
  /\ FiredAt(1) > FiredAt(2)
  /\ NoErrorLogged
  /\ Len(GetCurrentBuffer) = 2

(* -------------------------------- C23 ---------------------------------- *)

\* RingBufferLogger.getStats
GetStats ==
  [capacity |-> capacity, currentIndex |-> index, flushId |-> flushId,
   errorSeen |-> errorSeen, errorLoggedAt |-> errorLoggedAt,
   flushing |-> flushing]

\* n is a power of two
IsPowerOfTwo(n) == \E k \in 0..n : n = 2 ^ k

\* the event names of a sequence of entries
NamesOf(entries) == [i \in DOMAIN entries |-> entries[i].event]

\* what a sequence of flushes shows of each flush: reason, epoch, and the
\* event names in order
FlushesShown(fl) ==
  [i \in DOMAIN fl |->
     [reason |-> fl[i].reason, flushId |-> fl[i].flushId,
      events |-> NamesOf(fl[i].events)]]

\* C23: for a power-of-two capacity and any sequence of log() calls with
\* plain acyclic payloads, the three implementations report the same
\* getStats() fields after every call, hold the same event names in
\* getCurrentBuffer(), and have performed the same flushes (reason, epoch,
\* number and order of events).
C23_ThreeImplementationsAgree ==
  IsPowerOfTwo(capacity)
    => /\ FastStats(optimized) = GetStats
       /\ UltraStats(ultra) = GetStats
       /\ NamesOf(EntryValues(optimized.objects, FastSnapshot(optimized)))
            = NamesOf(GetCurrentBuffer)
       /\ NamesOf(EntryValues(ultra.objects, UltraSnapshot(ultra)))
            = NamesOf(GetCurrentBuffer)
       /\ FlushesShown(optimized.flushes) = FlushesShown(flushes)
       /\ FlushesShown(ultra.flushes) = FlushesShown(flushes)

(* -------------------------------- C24 ---------------------------------- *)

\* the smallest power of two that is >= n, for n >= 1
LeastPowerOfTwoFrom(n) ==
  CHOOSE p \in n..(2 * n) :
    /\ IsPowerOfTwo(p)
    /\ \A q \in n..(2 * n) : IsPowerOfTwo(q) => p <= q

\* C24: in the object-pooled and bit-optimized implementations, for every
\* requested capacity n >= 1 getStats().capacity is the smallest power of two
\* >= n, the two rounding functions agree, and the cursor wraps modulo this
\* effective capacity.
C24_CapacityRoundedToPowerOfTwo ==
  capacity >= 1
    => /\ FastStats(optimized).capacity = LeastPowerOfTwoFrom(capacity)
       /\ UltraStats(ultra).capacity = LeastPowerOfTwoFrom(capacity)
       /\ NextPowerOf2(capacity) = UltraCapacity(capacity)
       /\ FastStats(optimized).currentIndex
            = Len(logged) % LeastPowerOfTwoFrom(capacity)
       /\ UltraStats(ultra).currentIndex
            = Len(logged) % LeastPowerOfTwoFrom(capacity)

\* loggers asked for capacity 3 have taken five calls: the optimized cursors
\* have wrapped at 4, the baseline cursor at 3
C24_Witness ==
  /\ capacity = 3
  /\ Len(logged) = 5
  /\ FastStats(optimized).capacity = 4
  /\ UltraStats(ultra).capacity = 4
  /\ optimized.index = 1
  /\ ultra.index = 1
  /\ index = 2

(* ------------------- notions of the sanitizer claims ------------------- *)

\* the caller's objects referenced directly by a value
RECURSIVE RefsIn(_)
RefsIn(v) ==
  CASE v.t = "ref" -> {v.id}
    [] v.t = "object" -> UNION {RefsIn(v.fields[k]) : k \in DOMAIN v.fields}
    [] OTHER -> {}

\* the caller's objects reachable from the given ones
RECURSIVE ReachableFrom(_)
ReachableFrom(ids) ==
  LET more == ids \cup UNION {RefsIn(Heap[i]) : i \in ids}
  IN  IF more = ids THEN ids ELSE ReachableFrom(more)

\* the value contains a reference cycle: an object reachable from it is
\* reachable from its own properties
HasCycle(v) ==
  \E i \in ReachableFrom(RefsIn(v)) : i \in ReachableFrom(RefsIn(Heap[i]))

\* the strings of an acyclic value, each with the path of property names
\* that leads to it
RECURSIVE StringsAt(_, _)
StringsAt(v, path) ==
  CASE v.t = "string" -> {<<path, v>>}
    [] v.t = "ref" -> StringsAt(Heap[v.id], path)
    [] v.t = "object" ->
         UNION {StringsAt(v.fields[k], Append(path, k)) : k \in DOMAIN v.fields}
    [] OTHER -> {}

\* the value found in a stored payload by following a path
RECURSIVE ValueAt(_, _)
ValueAt(v, path) ==
  IF path = <<>> THEN v ELSE ValueAt(v.fields[Head(path)], Tail(path))

\* the entries an optimized logger's getCurrentBuffer() returns
FastBuffer == EntryValues(optimized.objects, FastSnapshot(optimized))

UltraBuffer == EntryValues(ultra.objects, UltraSnapshot(ultra))

(* -------------------------------- C25 ---------------------------------- *)

\* C25: in the baseline implementation a payload that contains a reference
\* cycle at any depth is stored as exactly {error: 'serialization failed'}
\* for the whole payload, and the log() call completes.
C25_CyclicPayloadBecomesSentinel ==
  /\ Len(logged) = Len(given)
  /\ capacity >= 1 => index = Len(given) % capacity
  /\ \A k \in DOMAIN given :
       HasCycle(given[k])
         => logged[k].data =
              Obj([error |-> Text("serialization failed", 20)])

\* a payload whose cycle lies below its top level has been logged and is in
\* the buffer as the sentinel
C25_Witness ==
  /\ given # <<>>
  /\ given[Len(given)] = Obj([circular |-> Ref(2)])
  /\ GetCurrentBuffer # <<>>
  /\ GetCurrentBuffer[Len(GetCurrentBuffer)].data = SerializationFailed

(* -------------------------------- C26 ---------------------------------- *)

\* what the claim says a string becomes: itself up to 1000 units, its first
\* 1000 units followed by '...' beyond
Kept(str) ==
  IF Length(str) <= 1000 THEN str
  ELSE [t |-> "string", body |-> str.body, units |-> 1000, tail |-> "..."]

\* C26: the sanitizer keeps a string of exactly 1000 units unchanged and
\* turns every string of more than 1000 units into its first 1000 units
\* followed by '...' (length 1003), at any nesting depth of the payload.
C26_StringsCutAtAnyDepth ==
  \A k \in DOMAIN given :
    ~HasCycle(given[k])
      => \A e \in StringsAt(given[k], <<>>) :
           /\ ValueAt(logged[k].data, e[1]) = Kept(e[2])
           /\ Length(e[2]) > 1000
                => Length(ValueAt(logged[k].data, e[1])) = 1003

\* a string of 1500 units two levels down has been stored with length 1003,
\* after a payload with strings of 1000 and of 1001 units
C26_Witness ==
  /\ Len(given) = 2
  /\ given[1] = Obj([exactly |-> Str(1000), tooLong |-> Str(1001)])
  /\ logged[1].data.fields.exactly = Str(1000)
  /\ Length(logged[1].data.fields.tooLong) = 1003
  /\ given[2] = Obj([nested |-> Obj([level |-> Str(1500)])])
  /\ Length(logged[2].data.fields.nested.fields.level) = 1003

(* -------------------------------- C27 ---------------------------------- *)

C29_CapacityZeroWriteIsNoOp ==
  capacity = 0
    => /\ index = 0
       /\ \A k \in DOMAIN buffer : buffer[k] = <<>>

(* -------------------------------- C30 ---------------------------------- *)

\* C30: every payload stored in the ring buffer can be serialized at flush
\* time, in all three implementations: whatever payloads were logged, no
\* flush fails because of the buffer contents and the artifact of every
\* flush is written.
C30_EveryFlushWritesItsArtifact ==
  /\ \A i \in DOMAIN flushes : flushes[i].written
  /\ \A i \in DOMAIN optimized.flushes : optimized.flushes[i].written
  /\ \A i \in DOMAIN ultra.flushes : ultra.flushes[i].written

(* ------------------- getCurrentBuffer() and getStats() ----------------- *)

\* a _snapshot that takes the entries out of the buffer
AfterRead_Drain(s) == [s EXCEPT !.buffer = Clear(@)]

\* the logger's fields after getCurrentBuffer() or getStats(): _snapshot
\* pushes the occupied slots into a new array and getStats builds a new
\* object; neither assigns to a field
AfterRead(s) == s

\* the baseline fields take the values of record s
FieldsBecome(s) ==
  /\ buffer' = s.buffer
  /\ index' = s.index
  /\ flushId' = s.flushId
  /\ errorSeen' = s.errorSeen
  /\ errorLoggedAt' = s.errorLoggedAt
  /\ flushing' = s.flushing
  /\ flushes' = s.flushes
  /\ dropped' = s.dropped

\* a caller calls getCurrentBuffer() on the three loggers and keeps the
\* arrays returned. The baseline's array holds the entry objects created by
\* log(), whose fields no code assigns again: they are held as values. The
\* arrays of the optimized loggers hold the pooled entry objects themselves:
\* they are held by identity, with the values read at the time of the call.
CallGetCurrentBuffer ==
  /\ held.reads < MaxReads
  /\ held' = [held EXCEPT
                !.reads = @ + 1,
                !.entries = GetCurrentBuffer,
                !.fast = FastSnapshot(optimized),
                !.fastSeen = EntryValues(optimized.objects, FastSnapshot(optimized)),
                !.ultra = UltraSnapshot(ultra),
                !.ultraSeen = EntryValues(ultra.objects, UltraSnapshot(ultra))]
  /\ FieldsBecome(AfterRead(Fields))
  /\ UNCHANGED <<capacity, logDirOk, logged, given, optimized, ultra>>

\* a caller calls getStats() and keeps the object returned
CallGetStats ==
  /\ held.reads < MaxReads
  /\ held' = [held EXCEPT !.reads = @ + 1, !.stats = <<GetStats>>]
  /\ FieldsBecome(AfterRead(Fields))
  /\ UNCHANGED <<capacity, logDirOk, logged, given, optimized, ultra>>

\* the three loggers, built with the same capacity, log the same events
\* while a caller reads the buffer and the statistics between the calls
InitReads == \E n \in 0..MaxCapacity : Construct(n, TRUE)

NextReads ==
  \/ \E event \in {"info", "error"}, data \in Payloads : LogAll(event, data)
  \/ CallGetCurrentBuffer
  \/ CallGetStats

SpecReads == InitReads /\ [][NextReads]_vars

(* -------------------------------- C31 ---------------------------------- *)

\* C31: a sequence returned by getCurrentBuffer() is a stable snapshot in
\* all three implementations: the event, data, flushId and ts of the entries
\* it holds are not changed by any later log() call, flush or clear.
C31_HeldSnapshotIsStable ==
  /\ \A i \in DOMAIN held.entries :
       held.entries[i] = logged[held.entries[i].ts]
  /\ EntryValues(optimized.objects, held.fast) = held.fastSeen
  /\ EntryValues(ultra.objects, held.ultra) = held.ultraSeen

(* -------------------------------- C32 ---------------------------------- *)

\* C32: getCurrentBuffer() and getStats() are pure reads: a call, in any
\* state and any number of times, changes neither the buffer slots, the
\* cursor, flushId, errorSeen, errorLoggedAt nor the flushing flag, and
\* writes no artifact.
C32_ReadsChangeNothing ==
  [][held'.reads # held.reads
       => /\ buffer' = buffer
          /\ index' = index
          /\ flushId' = flushId
          /\ errorSeen' = errorSeen
          /\ errorLoggedAt' = errorLoggedAt
          /\ flushing' = flushing
          /\ flushes' = flushes
          /\ dropped' = dropped
          /\ optimized' = optimized
          /\ ultra' = ultra]_vars

\* an Armed logger with entries in its buffer has been read twice, once by
\* each method, and still holds the entries the caller was given
C32_Witness ==
  /\ held.reads = 2
  /\ held.stats # <<>>
  /\ held.stats[1].errorSeen
  /\ Len(held.entries) >= 1
  /\ held.entries = GetCurrentBuffer
  /\ errorSeen

(* -------------------------------- C33 ---------------------------------- *)

C34_FlushesAlternate ==
  capacity >= 1
    => /\ \A i \in DOMAIN flushes :
            /\ flushes[i].reason =
                 (IF i % 2 = 1 THEN "pre-error-context"
                  ELSE "post-error-context")
            /\ flushes[i].reason = "pre-error-context"
                 => flushes[i].flushId % 2 = 0
            /\ (flushes[i].reason = "post-error-context" /\ i > 1)
                 => /\ flushes[i].flushId % 2 = 1
                    /\ flushes[i].flushId = flushes[i - 1].flushId + 1
       /\ errorSeen <=> flushId % 2 = 1

\* a second window has been opened after a first one was closed
C34_Witness ==
  /\ capacity >= 2
  /\ Len(flushes) = 3
  /\ flushes[3].flushId = 2
  /\ errorSeen
  /\ flushId = 3

(* -------------------------------- C35 ---------------------------------- *)

\* C35: for capacity C >= 2 a single log() call performs at most one flush;
\* an 'error' event whose write closes the armed window triggers only the
\* post-error flush, is included in that artifact, and leaves the logger
\* Idle; an 'error' event logged while Idle arms with a pre-error flush.
C35_ClosingErrorDoesNotRearm ==
  [][capacity >= 2
       => LET entry == LastLogged(logged')
          IN  /\ Len(flushes') <= Len(flushes) + 1
              /\ (errorSeen /\ entry.event = "error" /\
                  StrictEq(index', errorLoggedAt))
                   => /\ Len(flushes') = Len(flushes) + 1
                      /\ flushes'[Len(flushes')].reason = "post-error-context"
                      /\ entry \in Range(flushes'[Len(flushes')].events)
                      /\ ~errorSeen'
                      /\ errorLoggedAt' = Null
              /\ (~errorSeen /\ entry.event = "error")
                   => /\ Len(flushes') = Len(flushes) + 1
                      /\ flushes'[Len(flushes')].reason = "pre-error-context"
                      /\ errorSeen']_vars

\* an 'error' event has closed the window opened by an earlier one, and a
\* third 'error' event has armed the logger again
C35_Witness ==
  /\ capacity >= 2
  /\ Len(flushes) = 3
  /\ flushes[2].reason = "post-error-context"
  /\ flushes[2].events[Len(flushes[2].events)].event = "error"
  /\ flushes[3].reason = "pre-error-context"
  /\ flushes[3].flushedAt > flushes[2].flushedAt
  /\ errorSeen

(* -------------------------------- C36 ---------------------------------- *)

\* the flushes whose file was written
Written(fl) == {i \in DOMAIN fl : fl[i].written}

\* C36: a log() call entered with the flushing flag false returns with the
\* flag false, whether or not a flush ran and whether or not it failed; so
\* with log() as the only actor getStats().flushing is false between calls,
\* no flush request is dropped, and when no I/O failed the number of
\* artifacts written equals flushId.
C36_FlagFalseBetweenCalls ==
  /\ ~GetStats.flushing
  /\ dropped = <<>>
  /\ Len(flushes) = flushId
  /\ Failed(flushes) = {} => Cardinality(Written(flushes)) = flushId

\* a flush has failed, another one has been written after it, and the flag
\* is false
C36_Witness ==
  /\ ~flushing
  /\ logDirOk
  /\ \E i, j \in DOMAIN flushes : i < j /\ ~flushes[i].written /\ flushes[j].written

(* -------------------------------- C37 ---------------------------------- *)

\* every slot of array a other than slot k is in array b with the same content
SameExcept(a, b, k) ==
  \A j \in (DOMAIN a) \ {k} : j \in DOMAIN b /\ a[j] = b[j]

\* C37: a log() call made while the flushing flag is set drops every flush
\* it requests: each dropped request still increments flushId and updates
\* errorSeen and errorLoggedAt as the flush sites do, but no artifact is
\* written, the buffer is not cleared (only the cursor slot changes) and the
\* flag stays set; no artifact ever carries the epoch of a dropped request.
C37_DroppedFlushStillAdvances ==
  [][(flushing /\ logged' # logged)
       => LET entry == LastLogged(logged')
              arms == ~errorSeen /\ entry.event = "error"
              wraps == (errorSeen \/ arms) /\
                       StrictEq(index', IF arms THEN index ELSE errorLoggedAt)
              requests == (IF arms THEN 1 ELSE 0) + (IF wraps THEN 1 ELSE 0)
          IN  /\ flushes' = flushes
              /\ flushing'
              /\ Len(dropped') = Len(dropped) + requests
              /\ flushId' = flushId + requests
              /\ SubSeq(dropped', 1, Len(dropped)) = dropped
              /\ \A i \in (Len(dropped) + 1)..Len(dropped') :
                   /\ dropped'[i].flushId = flushId + (i - Len(dropped)) - 1
                   /\ \A j \in DOMAIN flushes' :
                        flushes'[j].flushId # dropped'[i].flushId
              /\ errorSeen' = IF wraps THEN FALSE
                              ELSE IF arms THEN TRUE ELSE errorSeen
              /\ errorLoggedAt' = IF wraps THEN Null
                                  ELSE IF arms THEN index ELSE errorLoggedAt
              /\ SameExcept(buffer, buffer', index)
              /\ buffer'[index] = <<entry>>]_vars

\* with the flag set, a pre-error and a post-error request have been dropped:
\* the epoch stands at 2 with no artifact, both entries are still in the
\* buffer and the flag is still set
C37_Witness ==
  /\ capacity = 2
  /\ flushing
  /\ Len(dropped) = 2
  /\ dropped[1].reason = "pre-error-context"
  /\ dropped[2].reason = "post-error-context"
  /\ flushes = <<>>
  /\ flushId = 2
  /\ Len(GetCurrentBuffer) = 2
  /\ GetCurrentBuffer[1].event = "error"

(* -------------------------------- C38 ---------------------------------- *)

\* C38: for capacity C >= 1 a log() call with a non-error event made while
\* Idle changes only the slot at the cursor and the cursor: every other
\* slot, flushId, errorSeen, errorLoggedAt and the flushing flag are
\* unchanged and no artifact is written.
C38_IdleNonErrorCallFrame ==
  [][(capacity >= 1 /\ ~errorSeen /\ logged' # logged /\
      LastLogged(logged').event # "error")
       => /\ DOMAIN buffer' = DOMAIN buffer
          /\ SameExcept(buffer, buffer', index)
          /\ buffer'[index] = <<LastLogged(logged')>>
          /\ index' = (index + 1) % capacity
          /\ flushId' = flushId
          /\ errorSeen' = errorSeen
          /\ errorLoggedAt' = errorLoggedAt
          /\ flushing' = flushing
          /\ flushes' = flushes
          /\ dropped' = dropped]_vars

\* an Idle logger past its first window has stored an 'ERROR' event over an
\* older entry without flushing
C38_Witness ==
  /\ capacity >= 2
  /\ ~errorSeen
  /\ flushId = 2
  /\ Len(flushes) = 2
  /\ LastLogged(logged).event = "ERROR"
  /\ Len(logged) >= flushes[2].flushedAt + capacity + 1
  /\ Len(GetCurrentBuffer) = capacity
  /\ GetCurrentBuffer[capacity] = LastLogged(logged)

(* -------------------------------- C39 ---------------------------------- *)

\* the calls that logged 'error'
ErrorCalls == {k \in DOMAIN logged : logged[k].event = "error"}

\* C39: with capacity 0 the first 'error' event runs exactly one pre-error
\* flush and arms the logger, and the logger stays Armed from then on: no
\* post-error flush and no further pre-error flush runs, and flushId stays
\* at 1.
C39_CapacityZeroStaysArmed ==
  capacity = 0
    => IF ErrorCalls = {}
       THEN flushes = <<>> /\ flushId = 0 /\ ~errorSeen
       ELSE /\ Len(flushes) = 1
            /\ flushes[1].reason = "pre-error-context"
            /\ flushes[1].flushId = 0
            /\ \A k \in ErrorCalls : flushes[1].flushedAt <= k
            /\ flushes[1].flushedAt \in ErrorCalls
            /\ flushId = 1
            /\ errorSeen

\* a capacity-0 logger armed by an 'error' after an earlier call, with
\* another 'error' and further calls logged since
C39_Witness ==
  /\ capacity = 0
  /\ errorSeen
  /\ errorLoggedAt = NaN
  /\ flushId = 1
  /\ Len(flushes) = 1
  /\ Cardinality(ErrorCalls) >= 2
  /\ Len(logged) >= flushes[1].flushedAt + 3

====
